---- MODULE Spec2Model ----
(***************************************************************************)
(* Persistence and maintenance operations of the market-data store         *)
(* (utils/database/functions.py) over one shared SQLAlchemy session.       *)
(*                                                                         *)
(* A string is a sequence of code points, a table is a bag of rows, a      *)
(* timestamp is a number of ticks; every operation of functions.py is one  *)
(* action that runs the whole function against the shared session.  A      *)
(* behaviour is one maintenance job: a caller that invokes one operation   *)
(* with one set of arguments, and invokes it again to retry or to repeat.  *)
(***************************************************************************)
EXTENDS Integers, Sequences, FiniteSets, Bags, TLC

VARIABLES
    stock,   \* dim_stocks: bag of symbols (Stock rows)
    bars,    \* fact_stock_bars: bag of [symbol, created_at, is_imputed]
    aggs,    \* StockBarAggregate: bag of [symbol, created_at, aggregation]
    tx,      \* transaction state of the shared session
    last,    \* what the last invocation did: op, outcome, ret, trace
    call,    \* the operation the caller invokes and its arguments
    base     \* the tables as they were before the first invocation

vars == <<stock, bars, aggs, tx, last, call, base>>

-----------------------------------------------------------------------------
(* Bounds *)

\* Timestamps are the ticks 0..MaxTick.
MaxTick == 2
\* Largest number of rows of a table in an initial state.
MaxRows == 2

\* total_seconds() // 60
SecondsPerMinute == 60

-----------------------------------------------------------------------------
(* Strings *)

\* "AAPL", "AMZN", "BBY", "aapl", "A_Z" and "" as code points.
AAPL == <<65, 65, 80, 76>>
AMZN == <<65, 77, 90, 78>>
BBY == <<66, 66, 89>>
aapl == <<97, 97, 112, 108>>
A_Z == <<65, 95, 90>>
Empty == <<>>

Percent == <<37>>
Underscore == <<95>>
Backslash == <<92>>

\* str.upper() on one ASCII character.
Upper(c) == IF c >= 97 /\ c <= 122 THEN c - 32 ELSE c

\* Python's str `<`: lexicographic by code point, a proper prefix first.
RECURSIVE StrLess(_, _)
StrLess(a, b) ==
    IF b = <<>> THEN FALSE
    ELSE IF a = <<>> THEN TRUE
    ELSE IF Head(a) # Head(b) THEN Head(a) < Head(b)
    ELSE StrLess(Tail(a), Tail(b))

\* list.sort(): insertion of x after every element not greater than it.
RECURSIVE SortInsert(_, _)
SortInsert(x, sorted) ==
    IF sorted = <<>> THEN <<x>>
    ELSE IF StrLess(x, Head(sorted)) THEN <<x>> \o sorted
    ELSE <<Head(sorted)>> \o SortInsert(x, Tail(sorted))

RECURSIVE ListSort(_)
ListSort(list) ==
    IF list = <<>> THEN <<>>
    ELSE SortInsert(Head(list), ListSort(Tail(list)))

Range(seq) == {seq[i] : i \in DOMAIN seq}

\* PostgreSQL `s LIKE pattern`: % is any run of characters, _ is any one
\* character, backslash makes the next pattern character literal.
RECURSIVE LikeMatch(_, _)
LikeMatch(s, pattern) ==
    IF pattern = <<>> THEN s = <<>>
    ELSE IF <<Head(pattern)>> = Percent
        THEN \E k \in 0..Len(s) : LikeMatch(SubSeq(s, k + 1, Len(s)), Tail(pattern))
    ELSE IF <<Head(pattern)>> = Underscore
        THEN s # <<>> /\ LikeMatch(Tail(s), Tail(pattern))
    ELSE IF <<Head(pattern)>> = Backslash /\ Len(pattern) >= 2
        THEN s # <<>> /\ Head(s) = pattern[2]
             /\ LikeMatch(Tail(s), Tail(Tail(pattern)))
    ELSE s # <<>> /\ Head(s) = Head(pattern) /\ LikeMatch(Tail(s), Tail(pattern))

-----------------------------------------------------------------------------
(* Tables *)

Times == 0..MaxTick

\* Every bag of at most n rows drawn from kinds.
RECURSIVE BagsUpTo(_, _)
BagsUpTo(kinds, n) ==
    IF n = 0 THEN {EmptyBag}
    ELSE LET smaller == BagsUpTo(kinds, n - 1)
         IN  smaller \cup {b (+) SetToBag({k}) : b \in smaller, k \in kinds}

\* The rows of a table in every order the storage may return them.
RECURSIVE StorageOrders(_)
StorageOrders(table) ==
    IF table = EmptyBag THEN {<<>>}
    ELSE UNION {{<<row>> \o rest : rest \in StorageOrders(table (-) SetToBag({row}))}
                : row \in BagToSet(table)}

\* The table restricted to the rows a WHERE clause selects.
Select(table, rows) == [row \in rows \cap BagToSet(table) |-> table[row]]

Tables == [stock |-> stock, bars |-> bars, aggs |-> aggs]

-----------------------------------------------------------------------------
(* The shared session (functions.py line 15, db.py line 21) *)

TxStates == {"none", "active", "aborted"}

\* A session in the middle of one call: the committed tables, the tables as
\* the open transaction sees them, the transaction state, the exception being
\* propagated if any, and the calls made so far.
Begin ==
    [db |-> Tables, work |-> Tables, tx |-> tx, exc |-> FALSE,
     trace |-> <<<<"START", TRUE>>>>]

Note(S, event, ok) == [S EXCEPT !.trace = Append(@, <<event, ok>>)]

\* session.execute / session.query(...).all(): skipped while an exception
\* propagates; fails when the database refuses the statement, as it does in
\* a transaction that already failed; otherwise the transaction sees `seen`.
Execute(S, event, seen, fails) ==
    IF S.exc THEN S
    ELSE IF fails \/ S.tx = "aborted"
        THEN Note([S EXCEPT !.tx = "aborted", !.exc = TRUE], event, FALSE)
    ELSE Note([S EXCEPT !.work = seen, !.tx = "active"], event, TRUE)

\* session.commit(): the transaction's tables become the committed ones; a
\* commit that fails persists nothing.
Commit(S, fails) ==
    IF S.exc THEN S
    ELSE IF fails
        THEN Note([S EXCEPT !.work = S.db, !.tx = "aborted", !.exc = TRUE],
                  "COMMIT", FALSE)
    ELSE Note([S EXCEPT !.db = S.work, !.tx = "none"], "COMMIT", TRUE)

\* session.rollback(): what was not committed is discarded.
Rollback(S) == Note([S EXCEPT !.work = S.db, !.tx = "none"], "ROLLBACK", TRUE)

\* session.close(): the transaction ends, nothing of it is persisted.
Close(S) == Note([S EXCEPT !.work = S.db, !.tx = "none"], "CLOSE", TRUE)

NoCall ==
    [op |-> "none", outcome |-> "none", ret |-> <<>>, trace |-> <<>>,
     retry |-> FALSE]

\* The call ends: the tables are the committed ones. retry: the caller
\* invokes the operation again after it raised.
Finish(S, op, outcome, ret) ==
    /\ stock' = S.db.stock
    /\ bars' = S.db.bars
    /\ aggs' = S.db.aggs
    /\ tx' = S.tx
    /\ last' = [op |-> op, outcome |-> outcome, ret |-> ret,
                trace |-> Append(S.trace, <<IF outcome = "raise" THEN "RAISE"
                                            ELSE "RETURN", TRUE>>),
                retry |-> (last.outcome = "raise")]
    /\ UNCHANGED <<call, base>>

-----------------------------------------------------------------------------
(* Symbol directory: reads *)

\* One row per symbol of StockBar (DISTINCT ON symbol).
DistinctSymbols(table) == SetToBag({row.symbol : row \in BagToSet(table)})

\* As ReadCall, without the finally block.
ReadCallWithoutFinally(S, op, ret) ==
    IF S.exc THEN Finish([S EXCEPT !.exc = FALSE], op, "return", <<>>)
    ELSE Finish(S, op, "return", ret)

\* try / except: return [] / finally: session.close()
ReadCall(S, op, ret) ==
    IF S.exc THEN Finish(Close([S EXCEPT !.exc = FALSE]), op, "return", <<>>)
    ELSE Finish(Close(S), op, "return", ret)

get_active_symbols(fails, order) ==
    LET S == Execute(Begin, "QUERY", Tables, fails)
    IN  /\ order \in StorageOrders(DistinctSymbols(bars))
        /\ ReadCall(S, "get_active_symbols", order)

\* The loop of lines 50-53 from position i on; raised when symbol[0] raises
\* IndexError on an empty symbol.
RECURSIVE GroupLetters(_, _, _)
GroupLetters(list, i, grouped) ==
    IF i > Len(list) THEN [raised |-> FALSE, value |-> grouped]
    ELSE IF list[i] = <<>> THEN [raised |-> TRUE, value |-> <<>>]
    ELSE LET starting_letter == <<Upper(list[i][1])>>
         IN  GroupLetters(list, i + 1,
                          IF starting_letter \in Range(grouped) THEN grouped
                          ELSE Append(grouped, starting_letter))

GroupAlphabetical(stock_table_list) ==
    GroupLetters(ListSort(stock_table_list), 1, <<>>)

load_stock_table_list(group_by, fails, order) ==
    LET S == Execute(Begin, "QUERY", Tables, fails)
        grouped == GroupAlphabetical(order)
        T == IF ~S.exc /\ group_by = "alphabetical" /\ grouped.raised
             THEN Note([S EXCEPT !.exc = TRUE], "GROUP", FALSE) ELSE S
    IN  /\ order \in StorageOrders(stock)
        /\ ReadCall(T, "load_stock_table_list",
                    IF group_by = "alphabetical" THEN grouped.value ELSE order)

\* Stock.symbol.like(f"{starting_letter}%")
StartingBy(table, starting_letter) ==
    Select(table, {symbol \in BagToSet(table) :
                      LikeMatch(symbol, starting_letter \o Percent)})

load_stock_starting_by(starting_letter, fails, order) ==
    LET S == Execute(Begin, "QUERY", Tables, fails)
    IN  /\ order \in StorageOrders(StartingBy(stock, starting_letter))
        /\ ReadCall(S, "load_stock_starting_by", order)

-----------------------------------------------------------------------------
(* Symbol directory: insert_new_stocks *)

\* As InsertFromSelect, without the NOT IN condition.
InsertFromSelectAll(stockTable, barsTable) ==
    stockTable (+) SetToBag({row.symbol : row \in BagToSet(barsTable)})

\* INSERT INTO dim_stocks (symbol) SELECT DISTINCT symbol FROM fact_stock_bars
\* WHERE symbol NOT IN (SELECT symbol FROM dim_stocks)
InsertFromSelect(stockTable, barsTable) ==
    stockTable (+) SetToBag({row.symbol : row \in BagToSet(barsTable)}
                            \ BagToSet(stockTable))

\* No try block: an exception leaves the transaction as it is.
insert_new_stocks(failExecute, failCommit) ==
    LET S0 == Begin
        S1 == Execute(S0, "INSERT",
                      [S0.work EXCEPT !.stock = InsertFromSelect(@, S0.work.bars)],
                      failExecute)
        S2 == Commit(S1, failCommit)
    IN  Finish(S2, "insert_new_stocks", IF S2.exc THEN "raise" ELSE "return", <<>>)

-----------------------------------------------------------------------------
(* Backfill from the market-data API *)

\* A tick is two thirds of a minute, so that a range of ticks need not be a
\* whole number of minutes.
Seconds(t) == t * ((2 * SecondsPerMinute) \div 3)

\* int((end_time - start_time).total_seconds() // 60)
ExpectedMinutes(start_time, end_time) ==
    (Seconds(end_time) - Seconds(start_time)) \div SecondsPerMinute

\* As ActualCount, without the is_imputed condition.
ActualCountAnyBar(barsTable, symbol, start_time, end_time) ==
    BagCardinality(Select(barsTable, {row \in BagToSet(barsTable) :
        /\ row.symbol = symbol
        /\ row.created_at >= start_time
        /\ row.created_at < end_time}))

\* counted_bars.actual_count of a symbol, 0 when it has no row (COALESCE).
ActualCount(barsTable, symbol, start_time, end_time) ==
    BagCardinality(Select(barsTable, {row \in BagToSet(barsTable) :
        /\ row.symbol = symbol
        /\ row.created_at >= start_time
        /\ row.created_at < end_time
        /\ row.is_imputed = FALSE}))

\* SELECT ds.symbol FROM dim_stocks ds LEFT JOIN counted_bars cb ...
\* WHERE COALESCE(cb.actual_count, 0) < :expected_minutes
SymbolsQuery(stockTable, barsTable, start_time, end_time, expected_minutes) ==
    Select(stockTable, {symbol \in BagToSet(stockTable) :
        ActualCount(barsTable, symbol, start_time, end_time) < expected_minutes})

SymbolsToReload(start_time, end_time) ==
    SymbolsQuery(stock, bars, start_time, end_time,
                 ExpectedMinutes(start_time, end_time))

\* get_stock_data is the broker's client: the call is recorded with the
\* symbols it is given; it may raise. Nothing is committed or closed here.
run_backfill_fact_stock_bars_api(start_time, end_time, failQuery, failFetch, symbols_list) ==
    LET S1 == Execute(Begin, "QUERY", Tables,
                      failQuery)
        S2 == IF S1.exc THEN S1
              ELSE Note([S1 EXCEPT !.exc = failFetch], "get_stock_data", ~failFetch)
    IN  /\ symbols_list \in StorageOrders(SymbolsToReload(start_time, end_time))
        /\ Finish(S2, "run_backfill_fact_stock_bars_api",
                  IF S2.exc THEN "raise" ELSE "return",
                  IF S1.exc THEN <<>> ELSE symbols_list)

-----------------------------------------------------------------------------
(* Delete-then-recompute operations *)

Aggregations == {"5min", "1hour"}
FailPoints == {"none", "open", "delete", "commit1", "recompute", "commit2"}

\* As DeleteImputedBars, without the is_imputed condition.
DeleteBarsInRange(barsTable, start_time, end_time) ==
    Select(barsTable, {row \in BagToSet(barsTable) :
        ~ (/\ row.created_at >= start_time
           /\ row.created_at < end_time)})

\* StockBar.__table__.delete().where(created_at >= start_time,
\*     created_at < end_time, is_imputed == True)
DeleteImputedBars(barsTable, start_time, end_time) ==
    Select(barsTable, {row \in BagToSet(barsTable) :
        ~ (/\ row.created_at >= start_time
           /\ row.created_at < end_time
           /\ row.is_imputed = TRUE)})

\* As DeleteAggregates, without the aggregation condition.
DeleteAggregatesOfAnyGranularity(aggsTable, start_time, end_time, aggregation) ==
    Select(aggsTable, {row \in BagToSet(aggsTable) :
        ~ (/\ row.created_at >= start_time
           /\ row.created_at < end_time)})

\* As DeleteAggregates, with created_at > start_time.
DeleteAggregatesAfterStart(aggsTable, start_time, end_time, aggregation) ==
    Select(aggsTable, {row \in BagToSet(aggsTable) :
        ~ (/\ row.created_at > start_time
           /\ row.created_at < end_time
           /\ row.aggregation = aggregation)})

\* StockBarAggregate.__table__.delete().where(created_at >= start_time,
\*     created_at < end_time, aggregation == aggregation)
DeleteAggregates(aggsTable, start_time, end_time, aggregation) ==
    Select(aggsTable, {row \in BagToSet(aggsTable) :
        ~ (/\ row.created_at >= start_time
           /\ row.created_at < end_time
           /\ row.aggregation = aggregation)})

\* backfill_fact_stock_bars.sql: one imputed bar for every minute of the
\* range at which a symbol that has sourced bars has none.
BackfillFactStockBarsSql(barsTable, start_time, end_time) ==
    LET sourced == {row \in BagToSet(barsTable) : ~row.is_imputed}
    IN  barsTable (+) SetToBag(
            {[symbol |-> row.symbol, created_at |-> t, is_imputed |-> TRUE] :
                row \in sourced,
                t \in {u \in Times : u >= start_time /\ u < end_time}}
            \ {[symbol |-> row.symbol, created_at |-> row.created_at,
                is_imputed |-> TRUE] : row \in sourced})

\* agg_stock_bars_candles.sql, agg_stock_bars.sql, agg_backfill_stock_bars.sql:
\* one aggregate of the given granularity for every symbol and window start
\* of the range that has bars.
AggregateSql(aggsTable, barsTable, start_time, end_time, aggregation) ==
    aggsTable (+) SetToBag(
        {[symbol |-> row.symbol, created_at |-> row.created_at,
          aggregation |-> aggregation] :
            row \in {r \in BagToSet(barsTable) :
                        r.created_at >= start_time /\ r.created_at < end_time}})

\* As ExceptRollbackRaise, without the raise.
ExceptRollbackOnly(S, op) ==
    IF S.exc THEN Finish(Rollback(S), op, "return", <<>>)
    ELSE Finish(S, op, "return", <<>>)

\* except Exception: session.rollback(); raise
ExceptRollbackRaise(S, op) ==
    IF S.exc THEN Finish(Rollback(S), op, "raise", <<>>)
    ELSE Finish(S, op, "return", <<>>)

\* try: session.execute(delete_stmt); session.commit()
DeleteAndCommit(afterDelete, failAt) ==
    Commit(Execute(Begin, "DELETE", afterDelete, failAt = "delete"),
           failAt = "commit1")

\* session.execute(sql_query); session.commit() / except. S is the session
\* after the delete and its commit.
RecomputeAndCommit(S, op, afterRecompute, failAt) ==
    ExceptRollbackRaise(
        Commit(Execute(S, "RECOMPUTE", afterRecompute, failAt = "recompute"),
               failAt = "commit2"),
        op)

\* with open(...sql) raises before the try block is entered.
OpenRaises(op) == Finish(Note(Begin, "OPEN", FALSE), op, "raise", <<>>)

run_backfill_fact_stock_bars(start_time, end_time, failAt) ==
    LET S == DeleteAndCommit(
                [Tables EXCEPT !.bars = DeleteImputedBars(@, start_time, end_time)],
                failAt)
    IN  IF failAt = "open" THEN OpenRaises("run_backfill_fact_stock_bars")
        ELSE RecomputeAndCommit(S, "run_backfill_fact_stock_bars",
                [S.work EXCEPT
                    !.bars = BackfillFactStockBarsSql(@, start_time, end_time)],
                failAt)

AggregateCall(op, start_time, end_time, aggregation, failAt) ==
    LET S == DeleteAndCommit(
                [Tables EXCEPT
                    !.aggs = DeleteAggregates(@, start_time, end_time, aggregation)],
                failAt)
    IN  IF failAt = "open" THEN OpenRaises(op)
        ELSE RecomputeAndCommit(S, op,
                [S.work EXCEPT
                    !.aggs = AggregateSql(@, S.work.bars, start_time, end_time,
                                          aggregation)],
                failAt)

run_agg_stock_bars_candles(start_time, end_time, aggregation, failAt) ==
    AggregateCall("run_agg_stock_bars_candles", start_time, end_time,
                  aggregation, failAt)

run_agg_backfill_stock_bars(start_time, end_time, aggregation, failAt) ==
    AggregateCall("run_agg_backfill_stock_bars", start_time, end_time,
                  aggregation, failAt)

run_agg_stock_bars(start_time, end_time, aggregation, failAt) ==
    AggregateCall("run_agg_stock_bars", start_time, end_time, aggregation, failAt)

WriteOps == {"run_backfill_fact_stock_bars", "run_agg_stock_bars_candles",
             "run_agg_backfill_stock_bars", "run_agg_stock_bars"}

-----------------------------------------------------------------------------
(* Specification *)

ReadOps == {"get_active_symbols", "load_stock_table_list", "load_stock_starting_by"}
AggOps == WriteOps \ {"run_backfill_fact_stock_bars"}

DirSymbols == {AAPL, AMZN, BBY, aapl, A_Z, Empty}
DirPrefixes == {<<>>, <<65>>, <<97>>, <<65, 77>>, <<66>>, Underscore, Percent,
                <<65, 95>>, <<65>> \o Backslash}
GroupBys == {"None", "alphabetical"}

BarKinds(symbols) ==
    [symbol : symbols, created_at : Times, is_imputed : BOOLEAN]
AggKinds(symbols) ==
    [symbol : symbols, created_at : Times, aggregation : Aggregations]

Bar(symbol, t) == [symbol |-> symbol, created_at |-> t, is_imputed |-> FALSE]

\* No bar, two bars of one symbol, bars of two symbols.
DirBars ==
    {EmptyBag, SetToBag({Bar(AAPL, 0), Bar(AAPL, 1)}),
     SetToBag({Bar(AAPL, 0), Bar(BBY, 0)})}

\* No bar, or one sourced bar of AAPL at every tick.
SourceBars == {EmptyBag, SetToBag({Bar(AAPL, t) : t \in Times})}

SetsUpTo(symbols, n) ==
    {SetToBag(s) : s \in {u \in SUBSET symbols : Cardinality(u) <= n}}

\* The callers pass a range with start_time <= end_time (lines 299-300).
Windows == {w \in Times \X Times : w[1] <= w[2]}

Calls ==
    [op : {"get_active_symbols", "insert_new_stocks"}, args : {<<>>}]
    \cup [op : {"load_stock_table_list"}, args : {<<g>> : g \in GroupBys}]
    \cup [op : {"load_stock_starting_by"}, args : {<<p>> : p \in DirPrefixes}]
    \cup [op : {"run_backfill_fact_stock_bars_api", "run_backfill_fact_stock_bars"},
          args : Windows]
    \cup [op : AggOps,
          args : {<<w[1], w[2], a>> : w \in Windows, a \in Aggregations}]

\* The tables the job finds: every content up to MaxRows rows of the tables
\* its operation reads or writes.
InitTables ==
    \/ /\ call.op \in ReadOps
       /\ stock \in SetsUpTo(DirSymbols, MaxRows)
       /\ bars \in DirBars
       /\ aggs = EmptyBag
    \/ /\ call.op = "insert_new_stocks"
       /\ stock \in SetsUpTo({AAPL, BBY, aapl}, MaxRows)
       /\ bars \in BagsUpTo({Bar(AAPL, 0), Bar(BBY, 0), Bar(BBY, 1)}, MaxRows)
       /\ aggs = EmptyBag
    \/ /\ call.op = "run_backfill_fact_stock_bars_api"
       /\ stock \in SetsUpTo({AAPL, BBY}, MaxRows)
       /\ bars \in BagsUpTo(BarKinds({AAPL}) \cup {Bar(BBY, t) : t \in Times},
                            MaxRows)
       /\ aggs = EmptyBag
    \/ /\ call.op = "run_backfill_fact_stock_bars"
       /\ stock = SetToBag({AAPL})
       /\ bars \in BagsUpTo(BarKinds({AAPL}), MaxRows)
       /\ aggs = EmptyBag
    \/ /\ call.op \in AggOps
       /\ stock = SetToBag({AAPL})
       /\ bars \in SourceBars
       /\ aggs \in BagsUpTo(AggKinds({AAPL}), MaxRows)

\* An earlier job may have left the session's transaction failed:
\* insert_new_stocks does not roll back.
Init ==
    /\ call \in Calls
    /\ InitTables
    /\ tx \in {"none", "aborted"}
    /\ last = NoCall
    /\ base = Tables

Next ==
    \/ /\ call.op = "get_active_symbols"
       /\ \E fails \in BOOLEAN, order \in StorageOrders(DistinctSymbols(bars)) :
            get_active_symbols(fails, order)
    \/ /\ call.op = "load_stock_table_list"
       /\ \E fails \in BOOLEAN, order \in StorageOrders(stock) :
            load_stock_table_list(call.args[1], fails, order)
    \/ /\ call.op = "load_stock_starting_by"
       /\ \E fails \in BOOLEAN,
             order \in StorageOrders(StartingBy(stock, call.args[1])) :
            load_stock_starting_by(call.args[1], fails, order)
    \/ /\ call.op = "insert_new_stocks"
       /\ \E failExecute \in BOOLEAN, failCommit \in BOOLEAN :
            insert_new_stocks(failExecute, failCommit)
    \/ /\ call.op = "run_backfill_fact_stock_bars_api"
       /\ \E failQuery \in BOOLEAN, failFetch \in BOOLEAN,
             symbols_list \in StorageOrders(SymbolsToReload(call.args[1], call.args[2])) :
            run_backfill_fact_stock_bars_api(call.args[1], call.args[2],
                                             failQuery, failFetch, symbols_list)
    \/ /\ call.op = "run_backfill_fact_stock_bars"
       /\ \E failAt \in FailPoints :
            run_backfill_fact_stock_bars(call.args[1], call.args[2], failAt)
    \/ /\ call.op = "run_agg_stock_bars_candles"
       /\ \E failAt \in FailPoints :
            run_agg_stock_bars_candles(call.args[1], call.args[2], call.args[3], failAt)
    \/ /\ call.op = "run_agg_backfill_stock_bars"
       /\ \E failAt \in FailPoints :
            run_agg_backfill_stock_bars(call.args[1], call.args[2], call.args[3], failAt)
    \/ /\ call.op = "run_agg_stock_bars"
       /\ \E failAt \in FailPoints :
            run_agg_stock_bars(call.args[1], call.args[2], call.args[3], failAt)

Spec == Init /\ [][Next]_vars

-----------------------------------------------------------------------------
(* Properties *)

Did(event, ok) == <<event, ok>> \in Range(last.trace)
IsPrefix(p, s) == Len(p) <= Len(s) /\ SubSeq(s, 1, Len(p)) = p
InRange(row) == row.created_at >= call.args[1] /\ row.created_at < call.args[2]

\* The number of rows of a table among a set of rows.
RECURSIVE Copies(_, _)
Copies(table, rows) ==
    IF rows = {} THEN 0
    ELSE LET row == CHOOSE r \in rows : TRUE
         IN  CopiesIn(row, table) + Copies(table, rows \ {row})

\* C1: in a delete-then-recompute operation whose recompute statement fails
\* after the delete ran, the delete is rolled back: the tables after the
\* operation raised are the tables before it was called.
C1_DeleteRolledBack ==
    [][(last'.op \in WriteOps /\ <<"RECOMPUTE", FALSE>> \in Range(last'.trace))
        => Tables' = Tables]_vars

\* C2: for start_time <= end_time, get_stock_data is given exactly the
\* symbols of Stock that have fewer non-imputed StockBar rows in
\* [start_time, end_time) than the whole minutes of the range, each once.
C2_SymbolsToReload ==
    (last.op = "run_backfill_fact_stock_bars_api" /\ Did("QUERY", TRUE)
     /\ call.args[1] <= call.args[2])
    => LET minutes == (Seconds(call.args[2]) - Seconds(call.args[1]))
                        \div SecondsPerMinute
           Sourced(symbol) ==
               {row \in BagToSet(bars) :
                   row.symbol = symbol /\ InRange(row) /\ ~row.is_imputed}
           missing == {symbol \in BagToSet(stock) :
                          Copies(bars, Sourced(symbol)) < minutes}
       IN  /\ Range(last.ret) = missing
           /\ Len(last.ret) = Cardinality(missing)
           /\ Did("get_stock_data", TRUE) \/ Did("get_stock_data", FALSE)

\* A range of one whole minute; Stock holds AAPL, whose only bar in the range
\* is imputed, and BBY, which has its sourced bar: AAPL alone is reloaded.
C2_Witness ==
    /\ last.op = "run_backfill_fact_stock_bars_api"
    /\ last.outcome = "return"
    /\ (Seconds(call.args[2]) - Seconds(call.args[1])) \div SecondsPerMinute = 1
    /\ BagToSet(stock) = {AAPL, BBY}
    /\ \E row \in BagToSet(bars) : row.symbol = AAPL /\ InRange(row) /\ row.is_imputed
    /\ \E row \in BagToSet(bars) : row.symbol = BBY /\ InRange(row) /\ ~row.is_imputed
    /\ last.ret = <<AAPL>>

\* C3: after a successful insert_new_stocks every symbol of StockBar is in
\* Stock exactly once; a successful call right after a successful call
\* leaves Stock as it is; no call removes a symbol of Stock.
C3_InsertNewStocks ==
    [][last'.op = "insert_new_stocks" =>
        /\ last'.outcome = "return" =>
              \A row \in BagToSet(bars') : CopiesIn(row.symbol, stock') = 1
        /\ (last.op = "insert_new_stocks" /\ last.outcome = "return"
            /\ last'.outcome = "return") => stock' = stock
        /\ \A symbol \in BagToSet(stock) :
              CopiesIn(symbol, stock') >= CopiesIn(symbol, stock)]_vars

\* Two bars of one symbol that Stock lacked, and a symbol Stock had that has
\* no bar.
C3_Witness ==
    /\ last.op = "insert_new_stocks"
    /\ last.outcome = "return"
    /\ \E symbol \in BagToSet(stock) :
          /\ ~BagIn(symbol, base.stock)
          /\ Copies(bars, {row \in BagToSet(bars) : row.symbol = symbol}) = 2
          /\ CopiesIn(symbol, stock) = 1
    /\ \E symbol \in BagToSet(base.stock) :
          /\ BagIn(symbol, stock)
          /\ \A row \in BagToSet(bars) : row.symbol # symbol

\* C4: the delete statement of the three aggregate operations removes
\* exactly the StockBarAggregate rows of the given aggregation with
\* start_time <= created_at < end_time, and leaves every other row of the
\* three tables as it was (seen when the delete is committed and the
\* recompute is not).
C4_DeleteAggregatesOnly ==
    [][(last'.op \in AggOps /\ <<"DELETE", TRUE>> \in Range(last'.trace)
        /\ <<"RECOMPUTE", TRUE>> \notin Range(last'.trace)
        /\ last'.trace[3] = <<"COMMIT", TRUE>>)
        => /\ \A row \in BagToSet(aggs) \cup BagToSet(aggs') :
                CopiesIn(row, aggs') =
                    IF InRange(row) /\ row.aggregation = call.args[3] THEN 0
                    ELSE CopiesIn(row, aggs)
           /\ bars' = bars
           /\ stock' = stock]_vars

\* The recompute failed after the delete: an aggregate of the window is gone
\* and one outside the window or of the other aggregation is still there.
C4_Witness ==
    /\ last.op \in AggOps
    /\ Did("RECOMPUTE", FALSE)
    /\ \E row \in BagToSet(base.aggs) :
          InRange(row) /\ row.aggregation = call.args[3] /\ ~BagIn(row, aggs)
    /\ \E row \in BagToSet(aggs) :
          ~InRange(row) \/ row.aggregation # call.args[3]

\* C5: run_backfill_fact_stock_bars removes no StockBar row that is sourced
\* (is_imputed false) or lies outside [start_time, end_time), whether it then
\* returns or raises.
C5_SourcedBarsKept ==
    [][last'.op = "run_backfill_fact_stock_bars" =>
        \A row \in BagToSet(bars) :
            ~(row.is_imputed /\ InRange(row))
                => CopiesIn(row, bars') >= CopiesIn(row, bars)]_vars

\* The recompute failed after the delete: an imputed bar of the range is
\* gone, a sourced bar of the range is still there.
C5_Witness ==
    /\ last.op = "run_backfill_fact_stock_bars"
    /\ Did("RECOMPUTE", FALSE)
    /\ \E row \in BagToSet(base.bars) :
          row.is_imputed /\ InRange(row) /\ ~BagIn(row, bars)
    /\ \E row \in BagToSet(bars) : ~row.is_imputed /\ InRange(row)

\* C6: load_stock_table_list(group_by="alphabetical") returns the distinct
\* uppercased first letters of the symbols of Stock in ascending order.
C6_SortedFirstLetters ==
    (last.op = "load_stock_table_list" /\ call.args = <<"alphabetical">>
     /\ Did("QUERY", TRUE) /\ \A symbol \in BagToSet(stock) : symbol # <<>>)
    => LET letters == {<<Upper(symbol[1])>> : symbol \in BagToSet(stock)}
       IN  /\ Range(last.ret) = letters
           /\ Len(last.ret) = Cardinality(letters)
           /\ \A i, j \in DOMAIN last.ret :
                 i < j => StrLess(last.ret[i], last.ret[j])

\* C7: load_stock_starting_by(prefix) returns exactly the symbols of Stock
\* that start with the characters of prefix, taken literally.
C7_LiteralPrefix ==
    (last.op = "load_stock_starting_by" /\ Did("QUERY", TRUE))
    => Range(last.ret) =
          {symbol \in BagToSet(stock) : IsPrefix(call.args[1], symbol)}

\* C8: a read of the symbol directory never raises; it returns the empty
\* sequence when its query or its post-processing fails and when the table it
\* reads is empty; it closes the session last, and it changes no table.
C8_ReadsSwallowAndClose ==
    [][last'.op \in ReadOps =>
        /\ last'.outcome = "return"
        /\ (\E i \in DOMAIN last'.trace : last'.trace[i][2] = FALSE)
              => last'.ret = <<>>
        /\ (IF last'.op = "get_active_symbols" THEN bars ELSE stock) = EmptyBag
              => last'.ret = <<>>
        /\ tx' = "none"
        /\ LET n == Len(last'.trace)
           IN  /\ last'.trace[n - 1] = <<"CLOSE", TRUE>>
               /\ last'.trace[n] = <<"RETURN", TRUE>>
        /\ Tables' = Tables]_vars

\* The query failed on a Stock table that has rows: the empty sequence is
\* returned and the failed transaction is closed.
C8_Witness ==
    /\ last.op = "load_stock_table_list"
    /\ Did("QUERY", FALSE)
    /\ stock # EmptyBag
    /\ last.ret = <<>>
    /\ last.outcome = "return"
    /\ tx = "none"

Steps(events) == [i \in DOMAIN events |-> <<events[i], TRUE>>]

\* C9: a delete-then-recompute operation that returns made exactly the steps
\* START, DELETE, COMMIT, RECOMPUTE, COMMIT; the recompute is executed only
\* right after the committed delete; the first failure of the delete, of a
\* commit or of the recompute is followed by one ROLLBACK and the raise, and
\* by nothing else.
C9_DeleteCommitRecomputeCommit ==
    last.op \in WriteOps =>
        LET trace == last.trace
            n == Len(trace)
            failed == {i \in DOMAIN trace :
                         /\ trace[i][1] \in {"DELETE", "COMMIT", "RECOMPUTE"}
                         /\ trace[i][2] = FALSE}
        IN  /\ last.outcome = "return" =>
                  trace = Steps(<<"START", "DELETE", "COMMIT", "RECOMPUTE",
                                  "COMMIT", "RETURN">>)
            /\ \A i \in DOMAIN trace : trace[i][1] = "RECOMPUTE" =>
                  SubSeq(trace, 1, i - 1) = Steps(<<"START", "DELETE", "COMMIT">>)
            /\ \A i \in failed :
                  /\ last.outcome = "raise"
                  /\ n = i + 2
                  /\ SubSeq(trace, 1, i - 1) =
                        SubSeq(Steps(<<"START", "DELETE", "COMMIT", "RECOMPUTE",
                                       "COMMIT">>), 1, i - 1)
                  /\ trace[i + 1] = <<"ROLLBACK", TRUE>>
                  /\ trace[i + 2] = <<"RAISE", TRUE>>
                  /\ tx = "none"
            /\ (last.outcome = "raise" /\ ~Did("OPEN", FALSE)) => failed # {}

\* The second commit failed: rollback, then raise.
C9_Witness ==
    /\ last.op = "run_agg_backfill_stock_bars"
    /\ last.outcome = "raise"
    /\ last.trace = <<<<"START", TRUE>>, <<"DELETE", TRUE>>, <<"COMMIT", TRUE>>,
                      <<"RECOMPUTE", TRUE>>, <<"COMMIT", FALSE>>,
                      <<"ROLLBACK", TRUE>>, <<"RAISE", TRUE>>>>

\* What one successful invocation makes of the tables.
OnceSucceeded(tables) ==
    IF call.op = "run_backfill_fact_stock_bars"
    THEN [tables EXCEPT !.bars = BackfillFactStockBarsSql(
              DeleteImputedBars(@, call.args[1], call.args[2]),
              call.args[1], call.args[2])]
    ELSE [tables EXCEPT !.aggs = AggregateSql(
              DeleteAggregates(@, call.args[1], call.args[2], call.args[3]),
              tables.bars, call.args[1], call.args[2], call.args[3])]

\* C10: whenever an invocation of a delete-then-recompute operation returns,
\* after any number of invocations with the same arguments that raised or
\* returned, the tables are what a single successful invocation makes of the
\* tables the first invocation found.
C10_RetryIsSafe ==
    (last.op \in WriteOps /\ last.outcome = "return")
        => Tables = OnceSucceeded(base)

\* An invocation returned after one that raised, and the window had
\* aggregates to replace.
C10_Witness ==
    /\ last.op \in AggOps
    /\ last.outcome = "return"
    /\ last.retry
    /\ Tables # base
    /\ \E row \in BagToSet(base.aggs) :
          InRange(row) /\ row.aggregation = call.args[3]
    /\ \E row \in BagToSet(aggs) : ~BagIn(row, base.aggs)

====
